---- MODULE Spec2Model ----
(***************************************************************************)
(* Model of the dopamine-detox-app aggregation layer: the Dexie            *)
(* repository (src/src/data/repository.ts), the date utilities             *)
(* (src/src/components/Layout.tsx, lines 394-547) and the zustand store    *)
(* (src/src/store/index.ts).                                               *)
(*                                                                         *)
(* Representation.  A day id 'yyyy-MM-dd' is the tuple <<y, m, d>>; a week *)
(* id 'yyyy-Www' is the tuple <<y, w>>.  A JavaScript Date is modelled by  *)
(* its LOCAL calendar day, counted in days since 1970-01-01.               *)
(***************************************************************************)
EXTENDS Integers, Sequences, FiniteSets, TLC

\* ------------------------------------------------------------------------
\* Bounds of the model
\* ------------------------------------------------------------------------
\* first and last calendar year of the dates the week functions are probed on
FirstYear == 2020
LastYear == 2024
\* the second probed date lies 0..MaxGap days after the first one
MaxGap == 7
\* number of ids uuidv4() hands out in one run (entries ever added)
MaxEntries == 2
\* number of repository operations in one run
MaxOps == 4
\* number of user actions on the store in one run
MaxUiOps == 4

\* ------------------------------------------------------------------------
\* Calendar arithmetic of the JavaScript Date object (proleptic Gregorian)
\* ------------------------------------------------------------------------
\* Date.UTC(y, m-1, d) / 86400000: days since 1970-01-01 of a civil date
DaysFromCivil(y, m, d) ==
  LET yy  == IF m <= 2 THEN y - 1 ELSE y
      era == yy \div 400
      yoe == yy - era * 400
      mp  == IF m > 2 THEN m - 3 ELSE m + 9
      doy == (153 * mp + 2) \div 5 + d - 1
      doe == yoe * 365 + yoe \div 4 - yoe \div 100 + doy
  IN  era * 146097 + doe - 719468

\* getFullYear/getMonth+1/getDate of the day with the given day number, in
\* steps: from the month index counted from March (mp), the day of the year
\* counted from March 1 (doy), the year of the 400-year era (yoe), the day of
\* the era (doe)
CivilFromMp(era, yoe, doy, mp) ==
  <<yoe + era * 400 + (IF mp < 10 THEN 0 ELSE 1),
    IF mp < 10 THEN mp + 3 ELSE mp - 9,
    doy - (153 * mp + 2) \div 5 + 1>>

CivilFromDoy(era, yoe, doy) == CivilFromMp(era, yoe, doy, (5 * doy + 2) \div 153)

CivilFromYoe(era, doe, yoe) ==
  CivilFromDoy(era, yoe, doe - (365 * yoe + yoe \div 4 - yoe \div 100))

CivilFromDoe(era, doe) ==
  CivilFromYoe(era, doe, (doe - doe \div 1460 + doe \div 36524 - doe \div 146096) \div 365)

CivilFromEra(zz, era) == CivilFromDoe(era, zz - era * 146097)

CivilFromDays(z) == CivilFromEra(z + 719468, (z + 719468) \div 146097)

\* Date.prototype.getDay(): 0 = Sunday .. 6 = Saturday (1970-01-01 was a Thursday)
GetDay(n) == (n + 4) % 7

\* Date.prototype.getFullYear()
GetFullYear(n) == CivilFromDays(n)[1]

\* new Date(year, 0, day): local constructor, day may overflow the month
NewDateYMD(year, day) == DaysFromCivil(year, 1, 1) + day - 1

\* new Date('yyyy-MM-dd'): a date-only ISO string is parsed as UTC midnight; read
\* back with local getters it is the same day east of (or at) Greenwich and the
\* previous day in a time zone west of Greenwich
NewDateStr(dateStr, west) ==
  DaysFromCivil(dateStr[1], dateStr[2], dateStr[3]) - (IF west THEN 1 ELSE 0)

\* format(date, 'yyyy-MM-dd') of date-fns: the local calendar day
format(n) == CivilFromDays(n)

\* string comparison of two 'yyyy-MM-dd' ids (zero padded, so lexicographic
\* order is the order of the component tuples)
StrLeq(a, b) ==
  \/ a[1] < b[1]
  \/ a[1] = b[1] /\ a[2] < b[2]
  \/ a[1] = b[1] /\ a[2] = b[2] /\ a[3] <= b[3]

\* ------------------------------------------------------------------------
\* date-fns functions called by the repository and the date utilities
\* ------------------------------------------------------------------------
\* startOfWeek(date, { weekStartsOn: 1 }): the Monday on or before date
startOfWeek(n) == n - ((GetDay(n) + 6) % 7)

\* endOfWeek(date, { weekStartsOn: 1 }): the Sunday on or after date
endOfWeek(n) == startOfWeek(n) + 6

\* addDays(date, k)
addDays(n, k) == n + k

\* getYear(date): the calendar year
getYear(n) == GetFullYear(n)

\* getISOWeekYear(date)
getISOWeekYear(n) ==
  LET year            == GetFullYear(n)
      startOfNextYear == startOfWeek(DaysFromCivil(year + 1, 1, 4))
      startOfThisYear == startOfWeek(DaysFromCivil(year, 1, 4))
  IN  IF n >= startOfNextYear THEN year + 1
      ELSE IF n >= startOfThisYear THEN year
      ELSE year - 1

\* startOfISOWeekYear(date)
startOfISOWeekYear(n) == startOfWeek(DaysFromCivil(getISOWeekYear(n), 1, 4))

\* getISOWeek(date)
getISOWeek(n) == (startOfWeek(n) - startOfISOWeekYear(n)) \div 7 + 1

\* ------------------------------------------------------------------------
\* Week ids of the repository and of the date utilities
\* ------------------------------------------------------------------------
\* DexieRepository.getWeekIdFromDate
getWeekIdFromDate(dateStr, west) ==
  LET date == NewDateStr(dateStr, west)
      year == getYear(date)
      week == getISOWeek(date)
  IN  <<year, week>>

\* DexieRepository.parseWeekId
parseWeekId(weekId) ==
  LET year    == weekId[1]
      weekNum == weekId[2]
      date    == NewDateYMD(year, 1 + (weekNum - 1) * 7)
      monday  == startOfWeek(date)
      sunday  == endOfWeek(date)
  IN  [startDate |-> format(monday), endDate |-> format(sunday)]

\* utils getWeekId(date: string)
getWeekId(dateStr, west) ==
  LET d    == NewDateStr(dateStr, west)
      year == getYear(d)
      week == getISOWeek(d)
  IN  <<year, week>>

\* utils getWeekRange(weekId)
getWeekRange(weekId) ==
  LET yearNum     == weekId[1]
      weekNumInt  == weekId[2]
      jan1        == NewDateYMD(yearNum, 1)
      firstMonday == startOfWeek(jan1)
      weekStart   == addDays(firstMonday, (weekNumInt - 1) * 7)
      weekEnd     == endOfWeek(weekStart)
  IN  [start |-> format(weekStart), end |-> format(weekEnd)]

\* store getWeekNumber(date)
getWeekNumber(n) ==
  LET start == DaysFromCivil(GetFullYear(n), 1, 1)
      days  == n - start
  IN  (days + GetDay(start) + 1 + 6) \div 7

\* store getWeekIdFromDate(dateStr)
storeGetWeekIdFromDate(dateStr, west) ==
  LET date == NewDateStr(dateStr, west)
      year == GetFullYear(date)
      week == getWeekNumber(date)
  IN  <<year, week>>

\* ------------------------------------------------------------------------
\* Input domains
\* ------------------------------------------------------------------------
\* day ids the operations are called with: a Monday whose ISO week belongs to
\* the next year, a Thursday of that same week, and a midweek day a year earlier
Days == {<<2024, 12, 30>>, <<2025, 1, 2>>, <<2024, 1, 3>>}

\* minutes an entry or a patch may carry (the repository takes any number)
Minutes == {0, 5}

\* replacement tags; '' is the form's "no replacement" (falsy in JavaScript)
Replacements == {"", "walk"}

\* checklist item ids of DEFAULT_CHECKLIST_TEMPLATE that the model toggles
ItemIds == {"i1", "i2"}

\* reflection texts
Reflections == {"calm"}

\* categories; handleQuickAdd uses settings.categories[0]
Categories == {"scrolling"}

\* the local date at which the app is started
Today == <<2025, 1, 2>>

\* ids generated by uuidv4(), in generation order
Ids == 1..MaxEntries

\* an id that uuidv4() never generated (a caller-supplied string)
ForeignId == 0

\* undefined / null where a row (a record) is expected
Undefined == [undefined |-> TRUE]

\* an absent reflections text (the optional field is undefined)
NoText == "<undefined>"

\* an absent weeklyLeisureMinutes (the optional field is undefined)
NoLeisure == -1

\* ------------------------------------------------------------------------
\* State
\* ------------------------------------------------------------------------
VARIABLES
  tzWest,         \* the browser's time zone lies west of Greenwich
  settings,       \* db.settings: id -> UserSettings
  days,           \* db.days: day id -> DayLog
  entries,        \* db.entries: id -> ActivityEntry
  weeks,          \* db.weeks: week id -> WeekSummary
  nextId,         \* the next id uuidv4() returns / the clock of createdAt
  lastOp,         \* the operation that ran last and how it ended
  ops,            \* number of operations run so far
  selectedDate,   \* store.selectedDate
  currentDay,     \* store.currentDay: a DayLog or Undefined (null)
  currentWeek,    \* store.currentWeek: a WeekSummary or Undefined (null)
  selectedWeek,   \* store.selectedWeek
  recentEntries,  \* store.recentEntries
  storeSettings,  \* store.settings: the UserSettings row or Undefined (null)
  notifications,  \* store.notifications: the types of the queued notifications
  isLoading,      \* store.isLoading
  isInitialized,  \* store.isInitialized
  loads,          \* the calls of the store still awaiting the
                  \* repository, oldest first
  probe,          \* the date the week functions are applied to
  probe2,         \* a second date, for comparing week ids
  probed,         \* what the last repository call or week function returned
  snapshot,       \* the JSON export last written (ExportData), or Undefined
  calls           \* the addEntry calls followed storage request by storage
                  \* request: where each one stands and what it has read

dbVars    == <<settings, days, entries, weeks, nextId>>
storeVars == <<selectedDate, currentDay, currentWeek, selectedWeek, recentEntries,
               storeSettings, notifications, isLoading, isInitialized, loads>>
probeVars == <<probe, probe2, probed, snapshot, calls>>
vars      == <<tzWest, dbVars, lastOp, ops, storeVars, probeVars>>

\* the four Dexie tables as one value
DB == [settings |-> settings, days |-> days, entries |-> entries, weeks |-> weeks]

\* the empty table
EmptyTable == [k \in {} |-> Undefined]

\* table.put(row)
Put(table, key, row) == [k \in DOMAIN table \cup {key} |-> IF k = key THEN row ELSE table[k]]

\* table.delete(key)
Delete(table, key) == [k \in DOMAIN table \ {key} |-> table[k]]

\* table.get(key)
Get(table, key) == IF key \in DOMAIN table THEN table[key] ELSE Undefined

\* entries.reduce((sum, entry) => sum + entry.minutes, 0) over the rows ids
RECURSIVE SumMinutes(_, _)
SumMinutes(tbl, ids) ==
  IF ids = {} THEN 0
  ELSE LET i == CHOOSE x \in ids : TRUE
       IN  tbl[i].minutes + SumMinutes(tbl, ids \ {i})

\* ------------------------------------------------------------------------
\* Repository (src/src/data/repository.ts)
\* ------------------------------------------------------------------------
\* DEFAULT_SETTINGS (the fields the aggregation reads)
DEFAULT_SETTINGS ==
  [id |-> "singleton", weeklyAllowanceMinutes |-> 240, allowanceMode |-> "absolute",
   weeklyLeisureMinutes |-> NoLeisure]

\* DexieRepository.getSettings: the database after the call
getSettingsDb(db) ==
  IF Get(db.settings, "singleton") = Undefined
  THEN [db EXCEPT !.settings = Put(db.settings, DEFAULT_SETTINGS.id, DEFAULT_SETTINGS)]
  ELSE db

\* DexieRepository.getSettings: the value returned
getSettings(db) == Get(getSettingsDb(db).settings, "singleton")

\* saveSettings dropping the cached week rows along with the write
saveSettings_mut(db, patch) ==
  [db EXCEPT !.settings = Put(getSettingsDb(db).settings, "singleton",
                              patch @@ getSettings(db)),
             !.weeks = EmptyTable]

\* DexieRepository.saveSettings: the merged row is stored under the id it
\* carries (updatedAt is not modelled)
saveSettings(db, patch) ==
  LET updated == patch @@ getSettings(db)
  IN  [db EXCEPT !.settings = Put(getSettingsDb(db).settings, updated.id, updated)]

\* DexieRepository.upsertDay
upsertDay(db, day) == [db EXCEPT !.days = Put(db.days, day.id, day)]

\* DexieRepository.getDay
getDay(db, id) == Get(db.days, id)

\* DexieRepository.listEntriesByDay: the ids of the rows returned
listEntriesByDay(db, dayId) ==
  {i \in DOMAIN db.entries : db.entries[i].dayId = dayId}

\* listEntriesInRange returning every stored row
listEntriesInRange_mut(db, startDate, endDate) == DOMAIN db.entries

\* DexieRepository.listEntriesInRange: the ids of the rows returned
listEntriesInRange(db, startDate, endDate) ==
  {i \in DOMAIN db.entries :
     StrLeq(startDate, db.entries[i].dayId) /\ StrLeq(db.entries[i].dayId, endDate)}

\* the replacementUsage / replacementBreakdown tally over the rows ids
ReplacementCount(db, ids) ==
  [r \in {db.entries[i].replacement : i \in ids} \ {""} |->
     Cardinality({i \in ids : db.entries[i].replacement = r})]

\* the categoriesBreakdown over the rows ids
CategoryMinutes(db, ids) ==
  [c \in {db.entries[i].category : i \in ids} |->
     SumMinutes(db.entries, {i \in ids : db.entries[i].category = c})]

\* recomputeDayTotals without the read of the existing row: the DayLog is
\* written with an empty checklist and no reflections
recomputeDayTotals_mut(db, dayId) ==
  LET ids == listEntriesByDay(db, dayId)
  IN  upsertDay(db, [id |-> dayId,
                     checklist |-> <<>>,
                     reflections |-> NoText,
                     totalFastMinutes |-> SumMinutes(db.entries, ids),
                     replacementUsage |-> ReplacementCount(db, ids)])

\* DexieRepository.recomputeDayTotals
recomputeDayTotals(db, dayId) ==
  LET ids              == listEntriesByDay(db, dayId)
      totalFastMinutes == SumMinutes(db.entries, ids)
      replacementUsage == ReplacementCount(db, ids)
      existingDay      == getDay(db, dayId)
      dayLog == [id |-> dayId,
                 checklist |-> IF existingDay = Undefined THEN <<>>
                               ELSE existingDay.checklist,
                 reflections |-> IF existingDay = Undefined THEN NoText
                                 ELSE existingDay.reflections,
                 totalFastMinutes |-> totalFastMinutes,
                 replacementUsage |-> replacementUsage]
  IN  upsertDay(db, dayLog)

\* 2^n
RECURSIVE Pow2(_)
Pow2(n) == IF n = 0 THEN 1 ELSE 2 * Pow2(n - 1)

\* 2^n mod 100
RECURSIVE Pow2Mod100(_)
Pow2Mod100(n) == IF n = 0 THEN 1 ELSE (2 * Pow2Mod100(n - 1)) % 100

\* floor(log2(n)) for n >= 1
RECURSIVE Log2(_)
Log2(n) == IF n < 2 THEN 0 ELSE 1 + Log2(n \div 2)

\* the j with 2^-j <= allowance/100 < 2^(1-j), counted up from j, for
\* 0 < allowance < 200: the double nearest to allowance/100 is m / 2^(52+j)
\* with 2^52 <= m < 2^53
RECURSIVE DoubleScale(_, _)
DoubleScale(allowance, j) ==
  IF allowance * Pow2(j) >= 100 THEN j ELSE DoubleScale(allowance, j + 1)

\* allowance / 100 in double arithmetic: what the division lost, in units of
\* 1 / (100 * 2^(52+j)); 0 when the quotient is exact or was rounded up
DoubleLoss(allowance, j) ==
  LET rho == (allowance * Pow2Mod100(52 + j)) % 100
  IN  IF rho > 50 THEN 0 ELSE rho

\* leisure * (allowance / 100) where the exact product is k + 1/2: the
\* double product is below k + 1/2 when what the division lost, times
\* leisure, exceeds half the spacing of the doubles just below k + 1/2
\* (2^(E-52), E the binary exponent there)
ProductBelowHalf(leisure, k, j, loss) ==
  LET s == j + (IF k = 0 THEN -2 ELSE Log2(k)) - 1
  IN  IF s >= 0 THEN leisure * loss > 100 * Pow2(s)
                ELSE leisure * loss * Pow2(-s) > 100

\* Math.round(leisure * (allowance / 100)) in IEEE double arithmetic, for
\* 0 <= leisure and 0 <= allowance < 200.  Off a half the two roundings of
\* the double arithmetic cannot move the product across k + 1/2, and the
\* result is the exact one; on a half Math.round rounds up unless the double
\* product fell below the half
RoundPct(leisure, allowance) ==
  IF (leisure * allowance) % 100 # 50
  THEN (leisure * allowance + 50) \div 100
  ELSE IF ProductBelowHalf(leisure, (leisure * allowance) \div 100,
                           DoubleScale(allowance, 0),
                           DoubleLoss(allowance, DoubleScale(allowance, 0)))
       THEN (leisure * allowance) \div 100
       ELSE (leisure * allowance) \div 100 + 1

\* capMinutes taken as the percentage of the leisure time in either mode
capMinutesOf_mut(s) ==
  RoundPct(IF s.weeklyLeisureMinutes = NoLeisure \/ s.weeklyLeisureMinutes = 0
           THEN 2800 ELSE s.weeklyLeisureMinutes,
           s.weeklyAllowanceMinutes % 100)

\* recomputeWeek: capMinutes of the settings s
capMinutesOf(s) ==
  IF s.allowanceMode = "absolute"
  THEN s.weeklyAllowanceMinutes
  ELSE RoundPct(IF s.weeklyLeisureMinutes = NoLeisure \/ s.weeklyLeisureMinutes = 0
                THEN 2800 ELSE s.weeklyLeisureMinutes,
                s.weeklyAllowanceMinutes)

\* capUsagePct as the quotient whatever the cap
capUsagePctOf_mut(totalMinutes, capMinutes) ==
  [num |-> totalMinutes * 100, den |-> capMinutes]

\* recomputeWeek: capUsagePct, kept exact as the fraction num/den
capUsagePctOf(totalMinutes, capMinutes) ==
  IF capMinutes > 0
  THEN [num |-> totalMinutes * 100, den |-> capMinutes]
  ELSE [num |-> 0, den |-> 1]

\* the WeekSummary row with streakActive set only below 100 percent
weekSummaryOf_mut(db, weekId, range, ids, totalMinutes, capMinutes, capUsagePct) ==
  [id |-> weekId,
   startDate |-> range.startDate,
   endDate |-> range.endDate,
   totalMinutes |-> totalMinutes,
   capMinutes |-> capMinutes,
   capUsagePct |-> capUsagePct,
   overCap |-> capUsagePct.num > 100 * capUsagePct.den,
   categoriesBreakdown |-> CategoryMinutes(db, ids),
   replacementBreakdown |-> ReplacementCount(db, ids),
   streakActive |-> capUsagePct.num < 100 * capUsagePct.den]

\* recomputeWeek: the WeekSummary row built from the entries ids of the range
weekSummaryOf(db, weekId, range, ids, totalMinutes, capMinutes, capUsagePct) ==
  [id |-> weekId,
   startDate |-> range.startDate,
   endDate |-> range.endDate,
   totalMinutes |-> totalMinutes,
   capMinutes |-> capMinutes,
   capUsagePct |-> capUsagePct,
   overCap |-> capUsagePct.num > 100 * capUsagePct.den,
   categoriesBreakdown |-> CategoryMinutes(db, ids),
   replacementBreakdown |-> ReplacementCount(db, ids),
   streakActive |-> capUsagePct.num <= 100 * capUsagePct.den]

\* recomputeWeek: the row computed from the totals, written with weeks.put
putWeekSummary(db, weekId, range, ids, totalMinutes, capMinutes) ==
  [db EXCEPT !.weeks =
     Put(db.weeks, weekId,
         weekSummaryOf(db, weekId, range, ids, totalMinutes, capMinutes,
                       capUsagePctOf(totalMinutes, capMinutes)))]

\* recomputeWeek: after parseWeekId, listEntriesInRange and getSettings
recomputeWeekOver(db1, weekId, range, ids) ==
  putWeekSummary(db1, weekId, range, ids, SumMinutes(db1.entries, ids),
                 capMinutesOf(getSettings(db1)))

\* recomputeWeek: after parseWeekId
recomputeWeekIn(db, weekId, range) ==
  recomputeWeekOver(getSettingsDb(db), weekId, range,
                    listEntriesInRange(db, range.startDate, range.endDate))

\* DexieRepository.recomputeWeek: the database after the call
recomputeWeek(db, weekId) == recomputeWeekIn(db, weekId, parseWeekId(weekId))

\* getWeekSummary recomputing the row whether or not one is stored
getWeekSummaryDb_mut(db, weekId) == recomputeWeek(db, weekId)

\* DexieRepository.getWeekSummary: the database after the call
getWeekSummaryDb(db, weekId) ==
  IF weekId \in DOMAIN db.weeks THEN db ELSE recomputeWeek(db, weekId)

\* DexieRepository.getWeekSummary: the value returned
getWeekSummary(db, weekId) == getWeekSummaryDb(db, weekId).weeks[weekId]

\* DexieRepository.addEntry: the database after the call; id is uuidv4() and
\* now the creation time
addEntry(db, entryData, id, now, west) ==
  LET entry == [id |-> id, createdAt |-> now] @@ entryData
      db1   == [db EXCEPT !.entries = Put(db.entries, entry.id, entry)]
      db2   == recomputeDayTotals(db1, entry.dayId)
      weekId == getWeekIdFromDate(entry.dayId, west)
  IN  recomputeWeek(db2, weekId)

\* the loop body of updateEntry for one affected day
recomputeDayAndWeek(db, dayId, west) ==
  recomputeWeek(recomputeDayTotals(db, dayId), getWeekIdFromDate(dayId, west))

\* updateEntry returning silently, as deleteEntry does, when the id is missing
updateEntry_mut(db, id, patch, west) ==
  IF id \notin DOMAIN db.entries
  THEN [db |-> db, error |-> ""]
  ELSE LET existing == db.entries[id]
           updated  == patch @@ existing
           db1      == [db EXCEPT !.entries = Put(db.entries, updated.id, updated)]
           db2      == recomputeDayAndWeek(db1, existing.dayId, west)
       IN  [db |-> IF "dayId" \in DOMAIN patch /\ patch.dayId # existing.dayId
                   THEN recomputeDayAndWeek(db2, patch.dayId, west)
                   ELSE db2,
            error |-> ""]

\* DexieRepository.updateEntry: the database after the call and the error
\* thrown ("" when the call resolves)
updateEntry(db, id, patch, west) ==
  IF id \notin DOMAIN db.entries
  THEN [db |-> db, error |-> "NotFound"]
  ELSE LET existing == db.entries[id]
           updated  == patch @@ existing
           db1      == [db EXCEPT !.entries = Put(db.entries, updated.id, updated)]
           db2      == recomputeDayAndWeek(db1, existing.dayId, west)
       IN  [db |-> IF "dayId" \in DOMAIN patch /\ patch.dayId # existing.dayId
                   THEN recomputeDayAndWeek(db2, patch.dayId, west)
                   ELSE db2,
            error |-> ""]

\* deleteEntry without the early return: existing.dayId is read of undefined
deleteEntry_mut(db, id, west) ==
  IF id \notin DOMAIN db.entries
  THEN [db |-> db, error |-> "TypeError"]
  ELSE LET existing == db.entries[id]
           db1      == [db EXCEPT !.entries = Delete(db.entries, id)]
           db2      == recomputeDayTotals(db1, existing.dayId)
       IN  [db |-> recomputeWeek(db2, getWeekIdFromDate(existing.dayId, west)),
            error |-> ""]

\* DexieRepository.deleteEntry: the database after the call and the error
\* thrown ("" when the call resolves)
deleteEntry(db, id, west) ==
  IF id \notin DOMAIN db.entries
  THEN [db |-> db, error |-> ""]
  ELSE LET existing == db.entries[id]
           db1      == [db EXCEPT !.entries = Delete(db.entries, id)]
           db2      == recomputeDayTotals(db1, existing.dayId)
       IN  [db |-> recomputeWeek(db2, getWeekIdFromDate(existing.dayId, west)),
            error |-> ""]

\* ------------------------------------------------------------------------
\* Inputs of the entry operations
\* ------------------------------------------------------------------------
\* Omit<ActivityEntry, 'id' | 'createdAt'> (triggers and note play no part in
\* any aggregate and are left out)
EntryData(replacements) ==
  [dayId : Days, minutes : Minutes, category : Categories, replacement : replacements]

\* Partial<ActivityEntry>: the empty patch and the patches of one of the fields
\* id, dayId, minutes and replacement; a patch that carries an id carries one
\* of ids
Patches(ids, replacements) ==
  {EmptyTable}
    \cup {[id |-> i] : i \in ids}
    \cup {[dayId |-> d] : d \in Days}
    \cup {[minutes |-> m] : m \in Minutes}
    \cup {[replacement |-> r] : r \in replacements}

\* ------------------------------------------------------------------------
\* Initial state: a fresh browser profile (empty IndexedDB), store as created
\* ------------------------------------------------------------------------
InitDb ==
  /\ settings = EmptyTable
  /\ days = EmptyTable
  /\ entries = EmptyTable
  /\ weeks = EmptyTable
  /\ nextId = 1

InitStore ==
  /\ selectedDate = Today
  /\ currentDay = Undefined
  /\ currentWeek = Undefined
  /\ selectedWeek = <<>>
  /\ recentEntries = <<>>
  /\ storeSettings = Undefined
  /\ notifications = <<>>
  /\ isLoading = FALSE
  /\ isInitialized = FALSE
  /\ loads = <<>>

NoProbe ==
  /\ probe = Today
  /\ probe2 = Today
  /\ probed = Undefined
  /\ snapshot = Undefined
  /\ calls = <<>>

Init ==
  /\ tzWest \in BOOLEAN
  /\ InitDb
  /\ InitStore
  /\ NoProbe
  /\ lastOp = [op |-> "none", id |-> ForeignId, error |-> "", again |-> FALSE]
  /\ ops = 0

\* one more operation, of at most max
Count(max) ==
  /\ ops < max
  /\ ops' = ops + 1

\* the tables after an operation
SetDb(db) ==
  /\ settings' = db.settings
  /\ days' = db.days
  /\ entries' = db.entries
  /\ weeks' = db.weeks

\* ------------------------------------------------------------------------
\* Repository operations, each run to completion
\* ------------------------------------------------------------------------
\* the record of the operation that just ran: its name, the entry id it was
\* called with (or generated), the error it threw, and whether the operation
\* before it was the same call
Ran(op, id, error) ==
  lastOp' = [op |-> op, id |-> id, error |-> error,
             again |-> lastOp.op = op /\ lastOp.id = id]

\* repository.addEntry(entryData)
AddEntry(entryData) ==
  /\ Count(MaxOps)
  /\ nextId <= MaxEntries
  /\ SetDb(addEntry(DB, entryData, nextId, nextId, tzWest))
  /\ nextId' = nextId + 1
  /\ Ran("addEntry", nextId, "")
  /\ UNCHANGED <<tzWest, storeVars, probeVars>>

\* repository.updateEntry(id, patch)
UpdateEntry(id, patch) ==
  /\ Count(MaxOps)
  /\ LET r == updateEntry(DB, id, patch, tzWest)
     IN  SetDb(r.db) /\ Ran("updateEntry", id, r.error)
  /\ UNCHANGED <<nextId, tzWest, storeVars, probeVars>>

\* repository.deleteEntry(id)
DeleteEntry(id) ==
  /\ Count(MaxOps)
  /\ LET r == deleteEntry(DB, id, tzWest)
     IN  SetDb(r.db) /\ Ran("deleteEntry", id, r.error)
  /\ UNCHANGED <<nextId, tzWest, storeVars, probeVars>>

\* updateEntry is called with the id of a stored row or with ForeignId, which
\* stands for every id that is not stored; deleteEntry with any id
Next ==
  \/ \E entryData \in EntryData({""}) : AddEntry(entryData)
  \/ \E id \in DOMAIN entries \cup {ForeignId}, patch \in Patches(1..(nextId - 1), {}) :
        UpdateEntry(id, patch)
  \/ \E id \in Ids \cup {ForeignId} : DeleteEntry(id)

Spec == Init /\ [][Next]_vars

\* ------------------------------------------------------------------------
\* Aggregates recomputed from the entries table, for comparison
\* ------------------------------------------------------------------------
\* sum of minutes over the entries of a day in an entries table
DaySumOf(tbl, d) == SumMinutes(tbl, {i \in DOMAIN tbl : tbl[i].dayId = d})

\* sum of minutes over the stored entries of a day
DaySum(d) == DaySumOf(entries, d)

\* sum of minutes over the stored entries whose day lies in [startDate, endDate]
RangeSum(startDate, endDate) ==
  SumMinutes(entries, {i \in DOMAIN entries :
     StrLeq(startDate, entries[i].dayId) /\ StrLeq(entries[i].dayId, endDate)})

\* C1: for every day id that has a DayLog row, totalFastMinutes equals the sum
\* of minutes over the stored entries of that day
C1_DayTotalEqualsSum ==
  \A d \in DOMAIN days : days[d].totalFastMinutes = DaySum(d)

\* totalFastMinutes of a day in a days table, 0 when the day has no row
DayTotal(tbl, d) == IF d \in DOMAIN tbl THEN tbl[d].totalFastMinutes ELSE 0

\* the step is updateEntry(id, {dayId: B}) on a stored entry of another day
IsMove(id, B) ==
  /\ id \in DOMAIN entries
  /\ entries[id].dayId # B
  /\ UpdateEntry(id, [dayId |-> B])

\* C2: after updateEntry(id, {dayId: B}) moves an entry of m minutes from day A
\* to day B, A's total has decreased by exactly m, B's has increased by exactly
\* m, and both totals equal the sums over the entries now stored for the day
C2_MoveCountedOnce ==
  [][\A id \in Ids, B \in Days :
       IsMove(id, B) =>
         LET A == entries[id].dayId
             m == entries[id].minutes
         IN  /\ DayTotal(days', A) = DayTotal(days, A) - m
             /\ DayTotal(days', B) = DayTotal(days, B) + m
             /\ DayTotal(days', A) = DaySumOf(entries', A)
             /\ DayTotal(days', B) = DaySumOf(entries', B)]_vars

\* C3: every stored WeekSummary has totalMinutes equal to the sum of minutes of
\* the stored entries whose dayId lies in its [startDate, endDate] range (rows
\* change only by the entry operations, so this is the claim after each of them)
C3_WeekTotalEqualsRangeSum ==
  \A w \in DOMAIN weeks :
    weeks[w].totalMinutes = RangeSum(weeks[w].startDate, weeks[w].endDate)

\* the sum of totalFastMinutes over the DayLog rows ids
RECURSIVE SumDayTotals(_, _)
SumDayTotals(tbl, ids) ==
  IF ids = {} THEN 0
  ELSE LET d == CHOOSE x \in ids : TRUE
       IN  tbl[d].totalFastMinutes + SumDayTotals(tbl, ids \ {d})

\* the DayLog rows whose id lies in [startDate, endDate]
DayLogsIn(startDate, endDate) ==
  {d \in DOMAIN days : StrLeq(startDate, d) /\ StrLeq(d, endDate)}

\* C24: every stored WeekSummary.totalMinutes equals the sum of
\* DayLog.totalFastMinutes over the DayLog rows of its [startDate, endDate]
C24_WeekTotalEqualsDayTotals ==
  \A w \in DOMAIN weeks :
    weeks[w].totalMinutes =
      SumDayTotals(days, DayLogsIn(weeks[w].startDate, weeks[w].endDate))

\* the tables entries, days and weeks are left as they were
TablesUnchanged == UNCHANGED <<entries, days, weeks>>

\* C8: deleteEntry with an id that is not stored resolves without error and
\* leaves entries, days and weeks unchanged, so that a second call meets the
\* same state and has the same outcome
C8_DeleteMissingIsNoOp ==
  [][(lastOp'.op = "deleteEntry" /\ lastOp'.id \notin DOMAIN entries) =>
       (lastOp'.error = "" /\ TablesUnchanged /\ lastOp'.id \notin DOMAIN entries')]_vars

\* a missing id was deleted twice in a row while rows were stored
C8_Witness ==
  /\ lastOp.op = "deleteEntry"
  /\ lastOp.again
  /\ lastOp.id \notin DOMAIN entries
  /\ lastOp.error = ""
  /\ DOMAIN entries # {}
  /\ DOMAIN weeks # {}

\* C9: updateEntry with an id that is not stored fails with NotFound and
\* writes nothing to entries, days or weeks
C9_UpdateMissingNotFound ==
  [][(lastOp'.op = "updateEntry" /\ lastOp'.id \notin DOMAIN entries) =>
       (lastOp'.error = "NotFound" /\ TablesUnchanged)]_vars

\* an update of a missing id has failed while rows were stored
C9_Witness ==
  /\ lastOp.op = "updateEntry"
  /\ lastOp.error = "NotFound"
  /\ lastOp.id \notin DOMAIN entries
  /\ DOMAIN entries # {}
  /\ DOMAIN days # {}

\* C10: every stored ActivityEntry has minutes greater than zero
C10_StoredMinutesPositive ==
  \A i \in DOMAIN entries : entries[i].minutes > 0

\* ------------------------------------------------------------------------
\* The week functions applied to every date of FirstYear..LastYear
\* ------------------------------------------------------------------------
\* the day numbers of the probed dates
ProbeDayNumbers == DaysFromCivil(FirstYear, 1, 1)..DaysFromCivil(LastYear, 12, 31)

DateInit ==
  /\ tzWest \in BOOLEAN
  /\ InitDb
  /\ InitStore
  /\ lastOp = [op |-> "none", id |-> ForeignId, error |-> "", again |-> FALSE]
  /\ ops = 0
  /\ \E n \in ProbeDayNumbers, gap \in 0..MaxGap :
       /\ probe = format(n)
       /\ probe2 = format(n + gap)
  /\ probed = Undefined
  /\ snapshot = Undefined
  /\ calls = <<>>

\* parseWeekId(getWeekIdFromDate(probe)), and the week id of probe2
ProbeRepository ==
  /\ probed = Undefined
  /\ probed' = [by      |-> "repository",
                weekId  |-> getWeekIdFromDate(probe, tzWest),
                weekId2 |-> getWeekIdFromDate(probe2, tzWest),
                first   |-> parseWeekId(getWeekIdFromDate(probe, tzWest)).startDate,
                last    |-> parseWeekId(getWeekIdFromDate(probe, tzWest)).endDate]
  /\ UNCHANGED <<tzWest, dbVars, lastOp, ops, storeVars, probe, probe2, snapshot, calls>>

\* getWeekRange(getWeekId(probe)), and the week id of probe2
ProbeUtils ==
  /\ probed = Undefined
  /\ probed' = [by      |-> "utils",
                weekId  |-> getWeekId(probe, tzWest),
                weekId2 |-> getWeekId(probe2, tzWest),
                first   |-> getWeekRange(getWeekId(probe, tzWest)).start,
                last    |-> getWeekRange(getWeekId(probe, tzWest)).end]
  /\ UNCHANGED <<tzWest, dbVars, lastOp, ops, storeVars, probe, probe2, snapshot, calls>>

DateNext == ProbeRepository \/ ProbeUtils

DateSpec == DateInit /\ [][DateNext]_vars

\* C4: the Monday-to-Sunday range derived from the week id of a date contains
\* the date, for the repository pair and for the utility pair
C4_WeekRoundTrip ==
  probed # Undefined => (StrLeq(probed.first, probe) /\ StrLeq(probe, probed.last))

\* the day number of the civil date of a day id
DayNumber(dayId) == DaysFromCivil(dayId[1], dayId[2], dayId[3])

\* the Monday of the Monday-to-Sunday week of a day id
MondayOf(dayId) == DayNumber(dayId) - ((GetDay(DayNumber(dayId)) + 6) % 7)

\* ISO-8601: a week belongs to the year of its Thursday, and its number is the
\* rank of that Thursday among the Thursdays of that year
IsoWeekId(dayId) ==
  LET thursday == MondayOf(dayId) + 3
      year     == CivilFromDays(thursday)[1]
  IN  <<year, (thursday - DaysFromCivil(year, 1, 1)) \div 7 + 1>>

\* C5: the week id of a date is its ISO-8601 week id, and two dates receive the
\* same week id if and only if they lie in the same Monday-to-Sunday week
C5_WeekIdIsIso ==
  probed # Undefined =>
    /\ probed.weekId = IsoWeekId(probe)
    /\ (probed.weekId = probed.weekId2) <=> (MondayOf(probe) = MondayOf(probe2))

\* ------------------------------------------------------------------------
\* Store (src/src/store/index.ts) driven by the day view
\* ------------------------------------------------------------------------
\* the rows ids ordered by createdAt (ties in primary-key order), as
\* Collection.sortBy('createdAt') returns them
RECURSIVE SortByCreatedAt(_, _)
SortByCreatedAt(tbl, ids) ==
  IF ids = {} THEN <<>>
  ELSE LET first == CHOOSE i \in ids : \A j \in ids :
                      \/ tbl[i].createdAt < tbl[j].createdAt
                      \/ tbl[i].createdAt = tbl[j].createdAt /\ i <= j
       IN  <<tbl[first]>> \o SortByCreatedAt(tbl, ids \ {first})

\* store.loadRecentEntries: the value set as recentEntries
loadRecentEntries(db, dayId) == SortByCreatedAt(db.entries, listEntriesByDay(db, dayId))

\* store.loadDay followed by the loadWeek it awaits: the database after the
\* calls (getWeekSummary may store a row) and the values set in the store
loadDay(db, dayId, west) ==
  LET day    == getDay(db, dayId)
      weekId == storeGetWeekIdFromDate(dayId, west)
      db1    == getWeekSummaryDb(db, weekId)
  IN  [db |-> db1, currentDay |-> day, currentWeek |-> db1.weeks[weekId],
       selectedWeek |-> weekId]

\* the store fields set by loadDay
SetLoaded(r) ==
  /\ SetDb(r.db)
  /\ currentDay' = r.currentDay
  /\ currentWeek' = r.currentWeek
  /\ selectedWeek' = r.selectedWeek

\* DayChecklist.isItemChecked: the stored state of the item, else the
\* template default (false for every item of DEFAULT_CHECKLIST_TEMPLATE)
isItemChecked(day, itemId) ==
  /\ day # Undefined
  /\ \E k \in 1..Len(day.checklist) :
       /\ day.checklist[k].itemId = itemId
       /\ day.checklist[k].checked
       /\ \A j \in 1..(k - 1) : day.checklist[j].itemId # itemId

\* existingChecklist.filter(item => item.itemId !== itemId)
RECURSIVE WithoutItem(_, _)
WithoutItem(list, itemId) ==
  IF list = <<>> THEN <<>>
  ELSE (IF Head(list).itemId = itemId THEN <<>> ELSE <<Head(list)>>)
       \o WithoutItem(Tail(list), itemId)

\* the DayLog row store.updateDayChecklist builds from store.currentDay
checklistDay(day, dayId, itemId, checked) ==
  [id |-> dayId,
   checklist |-> WithoutItem(IF day = Undefined THEN <<>> ELSE day.checklist, itemId)
                 \o <<[itemId |-> itemId, checked |-> checked]>>,
   reflections |-> IF day = Undefined THEN NoText ELSE day.reflections,
   totalFastMinutes |-> IF day = Undefined THEN 0 ELSE day.totalFastMinutes,
   replacementUsage |-> IF day = Undefined THEN EmptyTable ELSE day.replacementUsage]

\* the DayLog row store.updateDayReflections builds from store.currentDay
reflectionsDay(day, dayId, reflections) ==
  [id |-> dayId,
   checklist |-> IF day = Undefined THEN <<>> ELSE day.checklist,
   reflections |-> reflections,
   totalFastMinutes |-> IF day = Undefined THEN 0 ELSE day.totalFastMinutes,
   replacementUsage |-> IF day = Undefined THEN EmptyTable ELSE day.replacementUsage]

\* a call of the store that awaits the repository: loadDay or
\* loadRecentEntries for a day, started on its own
Load(fn, dayId) == [fn |-> fn, dayId |-> dayId, then |-> "none"]

\* loadDay or loadRecentEntries awaited by the entry operation op of the store
Reload(fn, dayId, op) == [fn |-> fn, dayId |-> dayId, then |-> op]

\* store.init on its successful path.  (The DayPage mounted once isInitialized
\* is set calls loadDay and loadRecentEntries for the same date again; these
\* read what init has just read and are not queued.)
StoreInit ==
  /\ ~isInitialized
  /\ Count(MaxUiOps)
  /\ LET db1 == getSettingsDb(DB)
         r   == loadDay(db1, selectedDate, tzWest)
     IN  /\ SetLoaded(r)
         /\ storeSettings' = getSettings(db1)
         /\ recentEntries' = loadRecentEntries(r.db, selectedDate)
  /\ isInitialized' = TRUE
  /\ isLoading' = FALSE
  /\ Ran("init", ForeignId, "")
  /\ UNCHANGED <<tzWest, nextId, selectedDate, notifications, loads, probeVars>>

\* store.setSelectedDate(date): loadDay(date) is started and not awaited; the
\* DayPage effect starts loadRecentEntries when selectedDate changed (and a
\* second loadDay(date), which reads the same row as the first)
SetSelectedDate(date) ==
  /\ isInitialized
  /\ Count(MaxUiOps)
  /\ selectedDate' = date
  /\ loads' = loads \o <<Load("loadDay", date)>> \o
              (IF date # selectedDate THEN <<Load("loadRecentEntries", date)>> ELSE <<>>)
  /\ Ran("setSelectedDate", ForeignId, "")
  /\ UNCHANGED <<tzWest, dbVars, currentDay, currentWeek, selectedWeek, recentEntries,
                 storeSettings, notifications, isLoading, isInitialized, probeVars>>

\* what an entry operation of the store starts once the load it awaited has
\* answered: loadRecentEntries after loadDay, nothing after loadRecentEntries
Continue(load) ==
  IF load.then # "none" /\ load.fn = "loadDay"
  THEN <<Reload("loadRecentEntries", load.dayId, load.then)>>
  ELSE <<>>

\* the oldest pending loadDay or loadRecentEntries gets its answer from the
\* repository; the entry operation awaiting it continues, and queues its
\* success notification after its last load
ResolveLoad ==
  /\ loads # <<>>
  /\ Head(loads).fn \in {"loadDay", "loadRecentEntries"}
  /\ loads' = Tail(loads) \o Continue(Head(loads))
  /\ IF Head(loads).fn = "loadDay"
     THEN /\ SetLoaded(loadDay(DB, Head(loads).dayId, tzWest))
          /\ UNCHANGED <<recentEntries, notifications>>
     ELSE /\ recentEntries' = loadRecentEntries(DB, Head(loads).dayId)
          /\ notifications' = IF Head(loads).then = "none" THEN notifications
                              ELSE Append(notifications, "success")
          /\ UNCHANGED <<settings, days, entries, weeks, currentDay, currentWeek,
                         selectedWeek>>
  /\ Ran(Head(loads).fn, ForeignId, "")
  /\ UNCHANGED <<tzWest, nextId, ops, selectedDate, storeSettings,
                 isLoading, isInitialized, probeVars>>

\* no call of the store awaits the repository
LoadsAnswered == loads = <<>>

\* the addEntry calls among the pending calls
PendingAdds == {k \in 1..Len(loads) : loads[k].fn = "addEntry"}

\* store.addEntry(dayId, entryData) called by FastLogPanel with dayId =
\* selectedDate: repository.addEntry is started and awaited
StoreAddEntry(data) ==
  /\ isInitialized
  /\ Count(MaxUiOps)
  /\ nextId + Cardinality(PendingAdds) <= MaxEntries
  /\ loads' = Append(loads, [fn |-> "addEntry", dayId |-> selectedDate, data |-> data])
  /\ Ran("call", ForeignId, "")
  /\ UNCHANGED <<tzWest, dbVars, selectedDate, currentDay, currentWeek, selectedWeek,
                 recentEntries, storeSettings, notifications, isLoading, isInitialized,
                 probeVars>>

\* repository.addEntry of the oldest pending call has completed: store.addEntry
\* goes on to loadDay(dayId)
ResolveAddEntry ==
  /\ loads # <<>>
  /\ Head(loads).fn = "addEntry"
  /\ SetDb(addEntry(DB, [dayId |-> Head(loads).dayId] @@ Head(loads).data,
                    nextId, nextId, tzWest))
  /\ nextId' = nextId + 1
  /\ loads' = Tail(loads) \o <<Reload("loadDay", Head(loads).dayId, "addEntry")>>
  /\ Ran("addEntry", nextId, "")
  /\ UNCHANGED <<tzWest, ops, selectedDate, currentDay, currentWeek, selectedWeek,
                 recentEntries, storeSettings, notifications, isLoading, isInitialized,
                 probeVars>>

\* the tail shared by store.updateEntry and store.deleteEntry once the
\* repository call r has settled: reload the day selected by then on success,
\* queue an error notification on failure
AfterEntryWrite(r, op) ==
  /\ SetDb(r.db)
  /\ loads' = Tail(loads) \o (IF r.error = ""
                              THEN <<Reload("loadDay", selectedDate, op)>> ELSE <<>>)
  /\ notifications' = IF r.error = "" THEN notifications
                      ELSE Append(notifications, "error")

\* store.updateEntry(editingEntry.id, formData) for an entry shown in the log
\* panel: the patch is the submitted form; repository.updateEntry is started
\* and awaited
StoreUpdateEntry(id, patch) ==
  /\ isInitialized
  /\ Count(MaxUiOps)
  /\ \E k \in 1..Len(recentEntries) : recentEntries[k].id = id
  /\ loads' = Append(loads, [fn |-> "updateEntry", id |-> id, patch |-> patch])
  /\ Ran("call", ForeignId, "")
  /\ UNCHANGED <<tzWest, dbVars, selectedDate, currentDay, currentWeek, selectedWeek,
                 recentEntries, storeSettings, notifications, isLoading, isInitialized,
                 probeVars>>

\* store.deleteEntry(id) for an entry shown in the log panel:
\* repository.deleteEntry is started and awaited
StoreDeleteEntry(id) ==
  /\ isInitialized
  /\ Count(MaxUiOps)
  /\ \E k \in 1..Len(recentEntries) : recentEntries[k].id = id
  /\ loads' = Append(loads, [fn |-> "deleteEntry", id |-> id])
  /\ Ran("call", ForeignId, "")
  /\ UNCHANGED <<tzWest, dbVars, selectedDate, currentDay, currentWeek, selectedWeek,
                 recentEntries, storeSettings, notifications, isLoading, isInitialized,
                 probeVars>>

\* repository.updateEntry of the oldest pending call has settled
ResolveUpdateEntry ==
  /\ loads # <<>>
  /\ Head(loads).fn = "updateEntry"
  /\ AfterEntryWrite(updateEntry(DB, Head(loads).id, Head(loads).patch, tzWest),
                     "updateEntry")
  /\ Ran("updateEntry", Head(loads).id,
         updateEntry(DB, Head(loads).id, Head(loads).patch, tzWest).error)
  /\ UNCHANGED <<tzWest, nextId, ops, selectedDate, currentDay, currentWeek,
                 selectedWeek, recentEntries, storeSettings, isLoading, isInitialized,
                 probeVars>>

\* repository.deleteEntry of the oldest pending call has settled
ResolveDeleteEntry ==
  /\ loads # <<>>
  /\ Head(loads).fn = "deleteEntry"
  /\ AfterEntryWrite(deleteEntry(DB, Head(loads).id, tzWest), "deleteEntry")
  /\ Ran("deleteEntry", Head(loads).id, deleteEntry(DB, Head(loads).id, tzWest).error)
  /\ UNCHANGED <<tzWest, nextId, ops, selectedDate, currentDay, currentWeek,
                 selectedWeek, recentEntries, storeSettings, isLoading, isInitialized,
                 probeVars>>

\* handleItemToggle: store.updateDayChecklist(selectedDate, itemId, !checked)
UpdateDayChecklist(itemId) ==
  /\ isInitialized
  /\ Count(MaxUiOps)
  /\ LET updatedDay == checklistDay(currentDay, selectedDate, itemId,
                                    ~isItemChecked(currentDay, itemId))
     IN  /\ SetDb(upsertDay(DB, updatedDay))
         /\ currentDay' = updatedDay
  /\ Ran("updateDayChecklist", ForeignId, "")
  /\ UNCHANGED <<tzWest, nextId, selectedDate, currentWeek, selectedWeek, recentEntries,
                 storeSettings, notifications, isLoading, isInitialized, loads, probeVars>>

\* handleReflectionsBlur: store.updateDayReflections(selectedDate, text) when
\* the text differs from the one of the day shown
UpdateDayReflections(text) ==
  /\ isInitialized
  /\ Count(MaxUiOps)
  /\ text # (IF currentDay = Undefined THEN NoText ELSE currentDay.reflections)
  /\ LET updatedDay == reflectionsDay(currentDay, selectedDate, text)
     IN  /\ SetDb(upsertDay(DB, updatedDay))
         /\ currentDay' = updatedDay
  /\ Ran("updateDayReflections", ForeignId, "")
  /\ UNCHANGED <<tzWest, nextId, selectedDate, currentWeek, selectedWeek, recentEntries,
                 storeSettings, notifications, isLoading, isInitialized, loads, probeVars>>

\* store.removeNotification: the 3000 ms timer of a success notification, or
\* the user dismissing one
RemoveNotification ==
  /\ notifications # <<>>
  /\ \E k \in 1..Len(notifications) :
       notifications' = SubSeq(notifications, 1, k - 1)
                        \o SubSeq(notifications, k + 1, Len(notifications))
  /\ UNCHANGED <<tzWest, dbVars, lastOp, ops, selectedDate, currentDay, currentWeek,
                 selectedWeek, recentEntries, storeSettings, isLoading, isInitialized,
                 loads, probeVars>>

\* what the log panel submits: minutes, category and replacement
FormData == [minutes : Minutes \ {0}, category : Categories, replacement : Replacements]

StoreNext ==
  \/ StoreInit
  \/ \E date \in Days : SetSelectedDate(date)
  \/ ResolveLoad
  \/ \E data \in FormData : StoreAddEntry(data)
  \/ \E id \in Ids, patch \in FormData : StoreUpdateEntry(id, patch)
  \/ \E id \in Ids : StoreDeleteEntry(id)
  \/ ResolveAddEntry
  \/ ResolveUpdateEntry
  \/ ResolveDeleteEntry
  \/ \E itemId \in ItemIds : UpdateDayChecklist(itemId)
  \/ \E text \in Reflections : UpdateDayReflections(text)
  \/ RemoveNotification

StoreSpec == Init /\ [][StoreNext]_vars

\* the step is a checklist toggle or a reflection save for the selected day,
\* which has a DayLog row and logged entries
TouchesLoggedDay ==
  /\ lastOp'.op \in {"updateDayChecklist", "updateDayReflections"}
  /\ selectedDate \in DOMAIN days
  /\ \E i \in DOMAIN entries : entries[i].dayId = selectedDate

\* C6: toggling a checklist item or saving a reflection for a day that has
\* logged entries leaves that day's stored totalFastMinutes and
\* replacementUsage unchanged
C6_ChecklistKeepsTotals ==
  [][TouchesLoggedDay =>
       /\ days'[selectedDate].totalFastMinutes = days[selectedDate].totalFastMinutes
       /\ days'[selectedDate].replacementUsage = days[selectedDate].replacementUsage]_vars

\* C7: addEntry, updateEntry and deleteEntry leave the checklist and the
\* reflection text of every stored day as they were
C7_EntryOpsKeepChecklist ==
  [][lastOp'.op \in {"addEntry", "updateEntry", "deleteEntry"} =>
       \A d \in DOMAIN days :
         /\ d \in DOMAIN days'
         /\ days'[d].checklist = days[d].checklist
         /\ days'[d].reflections = days[d].reflections]_vars

\* an entry was just added to a day that holds a checklist and a reflection
C7_Witness ==
  /\ lastOp.op = "addEntry"
  /\ lastOp.id \in DOMAIN entries
  /\ entries[lastOp.id].dayId \in DOMAIN days
  /\ days[entries[lastOp.id].dayId].checklist # <<>>
  /\ days[entries[lastOp.id].dayId].reflections # NoText
  /\ days[entries[lastOp.id].dayId].totalFastMinutes > 0

\* C21: the UI and the store issue a repository operation only after the
\* previous one has completed: at most one call awaits the repository
C21_SingleWriter == Len(loads) <= 1

\* the step in which a store.addEntry call for the selected day resolves
\* successfully: the loadRecentEntries it awaited last has answered, and no
\* other call of the store is awaiting the repository
AddEntryResolves ==
  /\ loads # <<>>
  /\ Head(loads).fn = "loadRecentEntries"
  /\ Head(loads).then = "addEntry"
  /\ Head(loads).dayId = selectedDate
  /\ lastOp'.op = "loadRecentEntries"
  /\ loads' = <<>>

\* C27: when store.addEntry(dayId, data) has resolved successfully,
\* store.currentDay is the DayLog of dayId and store.currentWeek is the
\* WeekSummary of the week that contains dayId, with a totalMinutes that
\* includes the minutes logged on dayId
C27_AddEntryRefreshesView ==
  [][AddEntryResolves =>
       /\ currentDay' # Undefined
       /\ currentDay'.id = Head(loads).dayId
       /\ currentWeek' # Undefined
       /\ StrLeq(currentWeek'.startDate, Head(loads).dayId)
       /\ StrLeq(Head(loads).dayId, currentWeek'.endDate)
       /\ currentWeek'.totalMinutes >= DaySumOf(entries', Head(loads).dayId)]_vars

\* C28: whenever no call of the store awaits the repository, store.currentDay
\* is null or the DayLog of store.selectedDate
C28_CurrentDayIsSelected ==
  LoadsAnswered => (currentDay = Undefined \/ currentDay.id = selectedDate)

\* ------------------------------------------------------------------------
\* Settings and week summaries: saveSettings, getSettings, recomputeWeek and
\* getWeekSummary next to addEntry, each run to completion
\* ------------------------------------------------------------------------
\* UserSettings.allowanceMode
Modes == {"absolute", "percentOfLeisure"}

\* weeklyAllowanceMinutes: minutes in absolute mode, a percentage otherwise
Allowances == {0, 10, 29, 240}

\* weeklyLeisureMinutes
Leisures == {0, 50, 2800}

\* minutes of the entries logged while the settings vary
CapMinutes == {140, 160}

\* week ids the week functions are called with: the week of Today and a week
\* nothing is logged in
WeekIds == {<<2025, 1>>, <<2024, 2>>}

\* Partial<UserSettings>: the patches of one of the three fields of the cap
SettingsPatches ==
  {[allowanceMode |-> m] : m \in Modes}
    \cup {[weeklyAllowanceMinutes |-> a] : a \in Allowances}
    \cup {[weeklyLeisureMinutes |-> l] : l \in Leisures}

\* the entries logged while the settings vary, all on Today
CapEntryData ==
  [dayId : {Today}, minutes : CapMinutes, category : Categories, replacement : {""}]

\* repository.saveSettings(patch)
SaveSettings(patch) ==
  /\ Count(MaxOps)
  /\ SetDb(saveSettings(DB, patch))
  /\ Ran("saveSettings", ForeignId, "")
  /\ probed' = Undefined
  /\ UNCHANGED <<nextId, tzWest, storeVars, probe, probe2, snapshot, calls>>

\* repository.getSettings()
GetSettings ==
  /\ Count(MaxOps)
  /\ SetDb(getSettingsDb(DB))
  /\ Ran("getSettings", ForeignId, "")
  /\ probed' = [result |-> getSettings(DB)]
  /\ UNCHANGED <<nextId, tzWest, storeVars, probe, probe2, snapshot, calls>>

\* repository.recomputeWeek(weekId)
RecomputeWeek(weekId) ==
  /\ Count(MaxOps)
  /\ SetDb(recomputeWeek(DB, weekId))
  /\ Ran("recomputeWeek", ForeignId, "")
  /\ probed' = [weekId |-> weekId, result |-> recomputeWeek(DB, weekId).weeks[weekId]]
  /\ UNCHANGED <<nextId, tzWest, storeVars, probe, probe2, snapshot, calls>>

\* repository.getWeekSummary(weekId)
GetWeekSummary(weekId) ==
  /\ Count(MaxOps)
  /\ SetDb(getWeekSummaryDb(DB, weekId))
  /\ Ran("getWeekSummary", ForeignId, "")
  /\ probed' = [weekId |-> weekId, existing |-> Get(weeks, weekId),
                result |-> getWeekSummary(DB, weekId)]
  /\ UNCHANGED <<nextId, tzWest, storeVars, probe, probe2, snapshot, calls>>

CapNext ==
  \/ \E entryData \in CapEntryData : AddEntry(entryData)
  \/ \E patch \in SettingsPatches : SaveSettings(patch)
  \/ GetSettings
  \/ \E weekId \in WeekIds : RecomputeWeek(weekId)
  \/ \E weekId \in WeekIds : GetWeekSummary(weekId)

CapSpec == Init /\ [][CapNext]_vars

\* the step is recomputeWeek(weekId) under settings of the given mode
RecomputesIn(mode) ==
  /\ lastOp'.op = "recomputeWeek"
  /\ getSettings(DB).allowanceMode = mode

\* the entries of the range of a stored week row sum to total
RowRangeSum(w) == RangeSum(w.startDate, w.endDate)

\* C11: in absolute mode the row recomputeWeek writes has capMinutes equal to
\* weeklyAllowanceMinutes, capUsagePct equal to totalMinutes / capMinutes * 100
\* (for a positive cap) and overCap exactly when capUsagePct exceeds 100
C11_AbsoluteCap ==
  [][RecomputesIn("absolute") =>
       LET w == weeks'[probed'.weekId]
       IN  /\ w.capMinutes = getSettings(DB).weeklyAllowanceMinutes
           /\ w.capMinutes > 0 =>
                w.capUsagePct.num * w.capMinutes = w.totalMinutes * 100 * w.capUsagePct.den
           /\ w.overCap <=> (w.capUsagePct.num > 100 * w.capUsagePct.den)]_vars

\* allowance 240 in absolute mode and entries summing to 300: the recomputed
\* row has capMinutes 240, capUsagePct 125 and overCap true
C11_Witness ==
  /\ lastOp.op = "recomputeWeek"
  /\ getSettings(DB).allowanceMode = "absolute"
  /\ getSettings(DB).weeklyAllowanceMinutes = 240
  /\ probed.weekId \in DOMAIN weeks
  /\ RowRangeSum(weeks[probed.weekId]) = 300
  /\ weeks[probed.weekId].totalMinutes = 300
  /\ weeks[probed.weekId].capMinutes = 240
  /\ weeks[probed.weekId].capUsagePct.num = 125 * weeks[probed.weekId].capUsagePct.den
  /\ weeks[probed.weekId].overCap

\* C12: in percent mode with a stored weeklyLeisureMinutes the row
\* recomputeWeek writes has capMinutes equal to
\* round(weeklyLeisureMinutes * weeklyAllowanceMinutes / 100), the quotient
\* rounded to the nearest integer (a half upwards, as Math.round does)
C12_PercentCap ==
  [][(RecomputesIn("percentOfLeisure")
        /\ getSettings(DB).weeklyLeisureMinutes # NoLeisure) =>
       weeks'[probed'.weekId].capMinutes =
         (getSettings(DB).weeklyLeisureMinutes
            * getSettings(DB).weeklyAllowanceMinutes + 50) \div 100]_vars

\* C13: when the derived capMinutes is 0 the row recomputeWeek writes has
\* capUsagePct 0 whatever the entries are, and no quotient by zero is formed
C13_ZeroCapGuard ==
  [][(lastOp'.op = "recomputeWeek" /\ weeks'[probed'.weekId].capMinutes = 0) =>
       /\ weeks'[probed'.weekId].capUsagePct.num = 0
       /\ weeks'[probed'.weekId].capUsagePct.den # 0
       /\ ~weeks'[probed'.weekId].overCap]_vars

\* a week with logged minutes was recomputed under a cap of 0
C13_Witness ==
  /\ lastOp.op = "recomputeWeek"
  /\ probed.weekId \in DOMAIN weeks
  /\ weeks[probed.weekId].capMinutes = 0
  /\ weeks[probed.weekId].totalMinutes > 0
  /\ weeks[probed.weekId].capUsagePct.num = 0

\* no stored entry has its day in the range of the week id
NoEntriesInWeek(weekId) ==
  \A i \in DOMAIN entries :
    ~(StrLeq(parseWeekId(weekId).startDate, entries[i].dayId)
        /\ StrLeq(entries[i].dayId, parseWeekId(weekId).endDate))

C26_StoredWeekReturnedAsIs ==
  [][lastOp'.op = "getWeekSummary" =>
       IF probed'.existing # Undefined
       THEN /\ probed'.result = probed'.existing
            /\ UNCHANGED <<settings, days, entries, weeks>>
       ELSE /\ probed'.weekId \in DOMAIN weeks'
            /\ weeks'[probed'.weekId] = probed'.result
            /\ UNCHANGED <<days, entries>>]_vars

\* getWeekSummary has just returned a stored row that a recomputation under
\* the settings of now would replace by a different one
C26_Witness ==
  /\ lastOp.op = "getWeekSummary"
  /\ probed.existing # Undefined
  /\ probed.result = weeks[probed.weekId]
  /\ recomputeWeek(DB, probed.weekId).weeks[probed.weekId] # probed.result

\* C29: saveSettings writes only the settings row: entries, days and weeks
\* are unchanged, so every stored WeekSummary keeps its capMinutes,
\* capUsagePct, overCap and streakActive
C29_SaveSettingsKeepsWeeks ==
  [][lastOp'.op = "saveSettings" =>
       /\ UNCHANGED <<entries, days, weeks>>
       /\ \A w \in DOMAIN weeks :
            /\ weeks'[w].capMinutes = weeks[w].capMinutes
            /\ weeks'[w].capUsagePct = weeks[w].capUsagePct
            /\ weeks'[w].overCap = weeks[w].overCap
            /\ weeks'[w].streakActive = weeks[w].streakActive]_vars

\* the settings were just saved and a stored week row with logged minutes
\* still carries the cap of the settings before
C29_Witness ==
  /\ lastOp.op = "saveSettings"
  /\ \E w \in DOMAIN weeks :
       /\ weeks[w].totalMinutes > 0
       /\ weeks[w].capMinutes # capMinutesOf(getSettings(DB))

\* ------------------------------------------------------------------------
\* JSON export and import (exportToJSON, importFromJSON)
\* ------------------------------------------------------------------------
\* SCHEMA_VERSION
SCHEMA_VERSION == 1

\* days of the export window: the last 30 days
ExportWindow == 30

\* DexieRepository.getDaysInRange: the ids of the rows returned
getDaysInRange(db, startDate, endDate) ==
  {d \in DOMAIN db.days : StrLeq(startDate, d) /\ StrLeq(d, endDate)}

\* the rows keys of a table
Rows(table, keys) == [k \in keys |-> table[k]]

\* exportToJSON: startDate and endDate, now being the local day number
exportRange(now) == [startDate |-> format(now - ExportWindow), endDate |-> format(now)]

\* exportToJSON: the week ids of the exported entries ids (the helper
\* getWeekIdFromDate of the export is the one of the store)
exportWeekIds(db, ids, west) ==
  {storeGetWeekIdFromDate(db.entries[i].dayId, west) : i \in ids}

\* exportToJSON: getWeekSummary for each week id, the database after the calls
RECURSIVE getWeekSummaries(_, _)
getWeekSummaries(db, weekIds) ==
  IF weekIds = {} THEN db
  ELSE LET weekId == CHOOSE w \in weekIds : TRUE
       IN  getWeekSummaries(getWeekSummaryDb(db, weekId), weekIds \ {weekId})

\* exportToJSON: the database after the call
exportDb(db, range, west) ==
  getWeekSummaries(getSettingsDb(db),
                   exportWeekIds(db, listEntriesInRange(db, range.startDate, range.endDate),
                                 west))

\* exportToJSON: exportData, db2 being the database after the call (exportedAt
\* is not modelled)
exportData(db, db2, range, west) ==
  [schemaVersion |-> SCHEMA_VERSION,
   settings |-> getSettings(db),
   days     |-> Rows(db.days, getDaysInRange(db, range.startDate, range.endDate)),
   entries  |-> Rows(db.entries, listEntriesInRange(db, range.startDate, range.endDate)),
   weeks    |-> Rows(db2.weeks,
                     exportWeekIds(db, listEntriesInRange(db, range.startDate,
                                                          range.endDate), west))]

\* importFromJSON: upsertDay for each day of data.days
RECURSIVE upsertDays(_, _, _)
upsertDays(db, rows, ids) ==
  IF ids = {} THEN db
  ELSE LET d == CHOOSE x \in ids : TRUE
       IN  upsertDays(upsertDay(db, rows[d]), rows, ids \ {d})

\* the first of the entry ids, in primary-key order
FirstOf(ids) == CHOOSE i \in ids : \A k \in ids : i <= k

\* importFromJSON: addEntry for each entry of data.entries; id is the next
\* uuidv4().  add never meets a stored key, so nothing is caught and skipped
RECURSIVE addEntries(_, _, _, _, _)
addEntries(db, rows, ids, id, west) ==
  IF ids = {} THEN db
  ELSE addEntries(addEntry(db, rows[FirstOf(ids)], id, id, west),
                  rows, ids \ {FirstOf(ids)}, id + 1, west)

\* importFromJSON: recomputeWeek for each id of data.weeks
RECURSIVE recomputeWeeks(_, _)
recomputeWeeks(db, weekIds) ==
  IF weekIds = {} THEN db
  ELSE LET weekId == CHOOSE w \in weekIds : TRUE
       IN  recomputeWeeks(recomputeWeek(db, weekId), weekIds \ {weekId})

\* importFromJSON without the check of the schema version
importFromJSON_mut(db, data, id, west) ==
  [db |-> recomputeWeeks(
            addEntries(upsertDays(saveSettings(db, data.settings),
                                  data.days, DOMAIN data.days),
                       data.entries, DOMAIN data.entries, id, west),
            DOMAIN data.weeks),
   error |-> ""]

\* importFromJSON(jsonStr), data being the parsed file: the database after
\* the call and the error thrown
importFromJSON(db, data, id, west) ==
  IF data.schemaVersion # SCHEMA_VERSION
  THEN [db |-> db, error |-> "UnsupportedVersion"]
  ELSE [db |-> recomputeWeeks(
                 addEntries(upsertDays(saveSettings(db, data.settings),
                                       data.days, DOMAIN data.days),
                            data.entries, DOMAIN data.entries, id, west),
                 DOMAIN data.weeks),
        error |-> ""]

\* schemaVersion of the files offered to the import: the current one and the
\* one of a later release
SchemaVersions == {SCHEMA_VERSION, SCHEMA_VERSION + 1}

\* settings.id of the files offered to the import: as exported, and as a file
\* written elsewhere may carry it
SettingsIds == {"singleton", "profile"}

\* the entries logged around exports and imports, all on Today
ImportEntryData ==
  [dayId : {Today}, minutes : {5}, category : Categories, replacement : Replacements]

\* the exported file with the schema version and the settings id it is
\* offered with
FileOf(data, version, settingsId) ==
  [data EXCEPT !.schemaVersion = version, !.settings.id = settingsId]

\* exportToJSON() on the day Today
ExportToJSON ==
  /\ Count(MaxOps + 1)
  /\ SetDb(exportDb(DB, exportRange(DayNumber(Today)), tzWest))
  /\ snapshot' = exportData(DB, exportDb(DB, exportRange(DayNumber(Today)), tzWest),
                            exportRange(DayNumber(Today)), tzWest)
  /\ Ran("exportToJSON", ForeignId, "")
  /\ UNCHANGED <<nextId, tzWest, storeVars, probe, probe2, probed, calls>>

\* importFromJSON(jsonStr) of the file last exported
ImportFromJSON(version, settingsId) ==
  /\ snapshot # Undefined
  /\ Count(MaxOps + 1)
  /\ nextId + Cardinality(DOMAIN snapshot.entries) <= MaxEntries + 1
  /\ LET r == importFromJSON(DB, FileOf(snapshot, version, settingsId), nextId, tzWest)
     IN  /\ SetDb(r.db)
         /\ Ran("importFromJSON", ForeignId, r.error)
         /\ nextId' = IF r.error = "" THEN nextId + Cardinality(DOMAIN snapshot.entries)
                      ELSE nextId
  /\ probed' = [file |-> FileOf(snapshot, version, settingsId)]
  /\ UNCHANGED <<tzWest, storeVars, probe, probe2, snapshot, calls>>

ImportNext ==
  \/ \E entryData \in ImportEntryData : AddEntry(entryData)
  \/ \E id \in Ids : DeleteEntry(id)
  \/ GetSettings
  \/ ExportToJSON
  \/ \E version \in SchemaVersions, settingsId \in SettingsIds :
        ImportFromJSON(version, settingsId)

ImportSpec == Init /\ [][ImportNext]_vars

\* the replacement tally over the entries of a day in an entries table
DayUsageOf(tbl, d) ==
  [r \in {tbl[i].replacement : i \in {k \in DOMAIN tbl : tbl[k].dayId = d}} \ {""} |->
     Cardinality({i \in DOMAIN tbl : tbl[i].dayId = d /\ tbl[i].replacement = r})]

\* C15: after importFromJSON has completed successfully, every day with a
\* DayLog row has totalFastMinutes and replacementUsage equal to the aggregates
\* of the entries stored for that day
C15_ImportKeepsDayTotals ==
  [][(lastOp'.op = "importFromJSON" /\ lastOp'.error = "") =>
       \A d \in DOMAIN days' :
         /\ days'[d].totalFastMinutes = DaySumOf(entries', d)
         /\ days'[d].replacementUsage = DayUsageOf(entries', d)]_vars

\* the step is a successful importFromJSON of a file all of whose entries are
\* stored already, as they are in the file
ImportsStoredEntries ==
  /\ lastOp'.op = "importFromJSON"
  /\ lastOp'.error = ""
  /\ \A i \in DOMAIN probed'.file.entries : Get(entries, i) = probed'.file.entries[i]

\* C16: importing a file whose entries are already stored does not store them
\* again: the entries table, the day totals and the week totals are the same
\* after the import as before it (so a second import of a file changes
\* nothing the first has not)
C16_ImportSkipsDuplicates ==
  [][ImportsStoredEntries =>
       /\ entries' = entries
       /\ \A d \in DOMAIN days : DayTotal(days', d) = DayTotal(days, d)
       /\ \A w \in DOMAIN weeks :
            w \in DOMAIN weeks' /\ weeks'[w].totalMinutes = weeks[w].totalMinutes]_vars

\* C17: importFromJSON of a file whose schemaVersion is not the current one
\* fails with the unsupported-version error and leaves settings, days, entries
\* and weeks unchanged
C17_VersionMismatchWritesNothing ==
  [][(lastOp'.op = "importFromJSON" /\ probed'.file.schemaVersion # SCHEMA_VERSION) =>
       /\ lastOp'.error = "UnsupportedVersion"
       /\ UNCHANGED <<settings, days, entries, weeks>>]_vars

\* a file of another schema version that holds a day and an entry has just
\* been refused
C17_Witness ==
  /\ lastOp.op = "importFromJSON"
  /\ lastOp.error = "UnsupportedVersion"
  /\ probed.file.schemaVersion # SCHEMA_VERSION
  /\ probed.file.entries # EmptyTable
  /\ probed.file.days # EmptyTable

\* C19: the settings table never holds more than one row; once a row exists it
\* is the row 'singleton', and getSettings leaves that row stored and returns
\* it
C19_SettingsSingleton ==
  /\ Cardinality(DOMAIN settings) <= 1
  /\ settings # EmptyTable => DOMAIN settings = {"singleton"}
  /\ lastOp.op = "getSettings" =>
       ("singleton" \in DOMAIN settings /\ probed.result = settings["singleton"])

\* ------------------------------------------------------------------------
\* Replacement tallies: the repository operations on entries that name a
\* replacement activity
\* ------------------------------------------------------------------------
\* the entries logged with or without a replacement, on two days of two weeks
UsageEntryData ==
  [dayId : {Today, <<2024, 1, 3>>}, minutes : {5}, category : Categories,
   replacement : Replacements]

UsageNext ==
  \/ \E entryData \in UsageEntryData : AddEntry(entryData)
  \/ \E id \in DOMAIN entries \cup {ForeignId},
        patch \in Patches(1..(nextId - 1), Replacements) :
        UpdateEntry(id, patch)
  \/ \E id \in Ids : DeleteEntry(id)

UsageSpec == Init /\ [][UsageNext]_vars

\* C18: for every day with a DayLog row and every replacement category r,
\* replacementUsage[r] is the number of stored entries of that day whose
\* replacement is r, and a category no entry of the day names is absent
C18_ReplacementUsageIsCount ==
  \A d \in DOMAIN days : days[d].replacementUsage = DayUsageOf(entries, d)

\* C20: updateEntry(id, patch) changes neither the ids of the stored entries
\* nor their number, and every row is stored under the id it carries
C20_UpdateKeepsIdAndCount ==
  [][lastOp'.op = "updateEntry" =>
       /\ DOMAIN entries' = DOMAIN entries
       /\ \A i \in DOMAIN entries' : entries'[i].id = i]_vars

\* ------------------------------------------------------------------------
\* repository.addEntry followed storage request by storage request: every
\* await of the method is one request to IndexedDB, and no method of the
\* repository opens a transaction around its requests, so the requests of
\* two calls interleave and a request may fail after earlier ones committed
\* ------------------------------------------------------------------------
\* number of addEntry calls that can be under way at once
MaxCalls == 2

Procs == 1..MaxCalls

\* the entries the concurrent calls add: all on one day, of 5 or 10 minutes
RaceEntryData ==
  [dayId : {Today}, minutes : {5, 10}, category : Categories, replacement : {""}]

\* the call p stands before the storage request pc
At(p, pc) == p \in DOMAIN calls /\ calls[p].pc = pc

\* the call p as it stands
Local(p) == calls[p]

\* recomputeDayTotals: the DayLog built from the rows read and the row found
dayLogOf(dayId, rows, existingDay) ==
  [id |-> dayId,
   checklist |-> IF existingDay = Undefined THEN <<>> ELSE existingDay.checklist,
   reflections |-> IF existingDay = Undefined THEN NoText
                   ELSE existingDay.reflections,
   totalFastMinutes |-> SumMinutes(rows, DOMAIN rows),
   replacementUsage |-> ReplacementCount([entries |-> rows], DOMAIN rows)]

\* addEntry: the week id of the entry's day
weekIdOf(p) == getWeekIdFromDate(Local(p).entry.dayId, tzWest)

\* repository.addEntry(entryData) is called: the entry is built with a fresh
\* uuid; nothing is stored yet
CallAddEntry(p, entryData) ==
  /\ IF p \in DOMAIN calls THEN Local(p).pc \in {"done", "failed"} ELSE TRUE
  /\ Count(MaxOps)
  /\ nextId <= MaxEntries
  /\ nextId' = nextId + 1
  /\ calls' = (p :> [pc |-> "entries.add",
                     entry |-> [id |-> nextId, createdAt |-> nextId] @@ entryData,
                     dayRows |-> EmptyTable,
                     existingDay |-> Undefined,
                     weekRows |-> EmptyTable,
                     capMinutes |-> 0,
                     before |-> DB]) @@ calls
  /\ Ran("call", nextId, "")
  /\ UNCHANGED <<tzWest, settings, days, entries, weeks, storeVars,
                 probe, probe2, probed, snapshot>>

\* the call p moves on to the request pc
Goes(p, pc, local) ==
  /\ calls' = [calls EXCEPT ![p] = [local EXCEPT !.pc = pc]]
  /\ Ran(Local(p).pc, Local(p).entry.id, "")
  /\ UNCHANGED <<tzWest, nextId, ops, storeVars, probe, probe2, probed, snapshot>>

\* await db.entries.add(entry)
EntriesAdd(p) ==
  /\ At(p, "entries.add")
  /\ entries' = Put(entries, Local(p).entry.id, Local(p).entry)
  /\ Goes(p, "listEntriesByDay", Local(p))
  /\ UNCHANGED <<settings, days, weeks>>

\* recomputeDayTotals: await this.listEntriesByDay(dayId)
ListEntriesByDay(p) ==
  /\ At(p, "listEntriesByDay")
  /\ Goes(p, "getDay",
          [Local(p) EXCEPT !.dayRows =
             Rows(entries, listEntriesByDay(DB, Local(p).entry.dayId))])
  /\ UNCHANGED <<settings, days, entries, weeks>>

\* recomputeDayTotals: await this.getDay(dayId)
GetDayLog(p) ==
  /\ At(p, "getDay")
  /\ Goes(p, "upsertDay",
          [Local(p) EXCEPT !.existingDay = getDay(DB, Local(p).entry.dayId)])
  /\ UNCHANGED <<settings, days, entries, weeks>>

\* recomputeDayTotals: await this.upsertDay(dayLog)
UpsertDay(p) ==
  /\ At(p, "upsertDay")
  /\ days' = upsertDay(DB, dayLogOf(Local(p).entry.dayId, Local(p).dayRows,
                                    Local(p).existingDay)).days
  /\ Goes(p, "listEntriesInRange", Local(p))
  /\ UNCHANGED <<settings, entries, weeks>>

\* recomputeWeek: await this.listEntriesInRange(startDate, endDate)
ListEntriesInRange(p) ==
  /\ At(p, "listEntriesInRange")
  /\ Goes(p, "getSettings",
          [Local(p) EXCEPT !.weekRows =
             Rows(entries, listEntriesInRange(DB, parseWeekId(weekIdOf(p)).startDate,
                                              parseWeekId(weekIdOf(p)).endDate))])
  /\ UNCHANGED <<settings, days, entries, weeks>>

\* recomputeWeek: await this.getSettings(), which stores the default row when
\* there is none (two calls that both find none store the same row)
ReadSettings(p) ==
  /\ At(p, "getSettings")
  /\ settings' = getSettingsDb(DB).settings
  /\ Goes(p, "weeks.put", [Local(p) EXCEPT !.capMinutes = capMinutesOf(getSettings(DB))])
  /\ UNCHANGED <<days, entries, weeks>>

\* recomputeWeek: await db.weeks.put(weekSummary); addEntry returns
WeeksPut(p) ==
  /\ At(p, "weeks.put")
  /\ weeks' = putWeekSummary([DB EXCEPT !.entries = Local(p).weekRows], weekIdOf(p),
                             parseWeekId(weekIdOf(p)), DOMAIN Local(p).weekRows,
                             SumMinutes(Local(p).weekRows, DOMAIN Local(p).weekRows),
                             Local(p).capMinutes).weeks
  /\ Goes(p, "done", Local(p))
  /\ UNCHANGED <<settings, days, entries>>

\* the storage request the call p stands before fails: the promise rejects,
\* addEntry throws and issues no further request
RequestFails(p) ==
  /\ p \in DOMAIN calls
  /\ Local(p).pc \notin {"done", "failed"}
  /\ Goes(p, "failed", Local(p))
  /\ UNCHANGED <<settings, days, entries, weeks>>

RaceNext ==
  \/ \E p \in Procs, entryData \in RaceEntryData : CallAddEntry(p, entryData)
  \/ \E p \in Procs : EntriesAdd(p)
  \/ \E p \in Procs : ListEntriesByDay(p)
  \/ \E p \in Procs : GetDayLog(p)
  \/ \E p \in Procs : UpsertDay(p)
  \/ \E p \in Procs : ListEntriesInRange(p)
  \/ \E p \in Procs : ReadSettings(p)
  \/ \E p \in Procs : WeeksPut(p)
  \/ \E p \in Procs : RequestFails(p)

RaceSpec == Init /\ [][RaceNext]_vars

\* every addEntry call made has completed, and at least two were made
AllCompleted ==
  /\ Cardinality(DOMAIN calls) >= 2
  /\ \A p \in DOMAIN calls : Local(p).pc = "done"
  /\ DOMAIN entries = 1..(nextId - 1)

\* C22: once two entry writes on the same day, issued without waiting for
\* each other, have both completed, the DayLog total of the day and the
\* WeekSummary total of its week equal the sums over the stored entries
C22_ConcurrentWritesConsistent ==
  AllCompleted =>
    \A i \in DOMAIN entries :
      /\ DayTotal(days, entries[i].dayId) = DaySum(entries[i].dayId)
      /\ \A w \in DOMAIN weeks : weeks[w].totalMinutes = RowRangeSum(weeks[w])

\* the call p has just failed at one of its requests while it was the only
\* call ever made
FailsAlone(p) ==
  /\ DOMAIN calls = {p}
  /\ Local(p).pc \notin {"done", "failed"}
  /\ calls'[p].pc = "failed"

\* C23: an entry write is one transaction: when a storage request of it
\* fails, none of its writes remain
C23_FailedWriteLeavesNothing ==
  [][\A p \in Procs : FailsAlone(p) => DB' = Local(p).before]_vars

\* ------------------------------------------------------------------------
\* store.init with a repository that may fail: the app is started over the
\* database earlier sessions left, and one of the repository calls of init
\* may reject
\* ------------------------------------------------------------------------
\* where init meets a rejected repository call: nowhere, in loadSettings
\* (getSettings), in loadDay (getDay), in loadWeek (getWeekSummary) or in
\* loadRecentEntries (listEntriesByDay)
InitFailures == {"", "settings", "day", "week", "entries"}

\* the failure ends init in its catch block under every failure
Rethrown_mut(failure) == failure # ""

\* the failure reaches the catch block of init: loadSettings rethrows what it
\* caught; loadDay, loadWeek and loadRecentEntries log the error and return
Rethrown(failure) == failure = "settings"

\* App: the effect calls init() while isInitialized is false; init sets
\* isLoading and awaits loadSettings
InitCalled ==
  /\ ~isInitialized
  /\ ~isLoading
  /\ lastOp.op # "init"
  /\ Count(MaxOps)
  /\ isLoading' = TRUE
  /\ Ran("call", ForeignId, "")
  /\ UNCHANGED <<tzWest, dbVars, selectedDate, currentDay, currentWeek, selectedWeek,
                 recentEntries, storeSettings, notifications, isInitialized, loads,
                 probeVars>>

\* init settles: loadSettings, loadDay(today) with its loadWeek, and
\* loadRecentEntries(today) ran up to the failure; a call that rejects at its
\* first request has written nothing
InitSettles(failure) ==
  /\ isLoading
  /\ LET db1 == IF failure = "settings" THEN DB ELSE getSettingsDb(DB)
         r   == loadDay(db1, Today, tzWest)
     IN  /\ SetDb(IF Rethrown(failure) \/ failure \in {"day", "week"} THEN db1 ELSE r.db)
         /\ storeSettings' = IF failure = "settings" THEN storeSettings
                             ELSE getSettings(db1)
         /\ currentDay' = IF Rethrown(failure) \/ failure = "day" THEN currentDay
                          ELSE r.currentDay
         /\ currentWeek' = IF Rethrown(failure) \/ failure \in {"day", "week"}
                           THEN currentWeek ELSE r.currentWeek
         /\ selectedWeek' = IF Rethrown(failure) \/ failure \in {"day", "week"}
                            THEN selectedWeek ELSE r.selectedWeek
         /\ recentEntries' = IF Rethrown(failure) \/ failure = "entries"
                             THEN recentEntries
                             ELSE loadRecentEntries(db1, Today)
  /\ isInitialized' = ~Rethrown(failure)
  /\ notifications' = IF Rethrown(failure) THEN Append(notifications, "error")
                      ELSE notifications
  /\ isLoading' = FALSE
  /\ Ran("init", ForeignId, failure)
  /\ UNCHANGED <<tzWest, nextId, ops, selectedDate, loads, probeVars>>

\* entries logged in earlier sessions, then the start of the app
InitNext ==
  \/ ~isLoading /\ lastOp.op # "init" /\ \E entryData \in EntryData({""}) : AddEntry(entryData)
  \/ InitCalled
  \/ \E failure \in InitFailures : InitSettles(failure)

InitSpec == Init /\ [][InitNext]_vars

\* C30: once store.init() has settled isLoading is false, and isInitialized
\* is true exactly when loading the settings succeeded: a loadSettings
\* failure leaves it false and adds one error notification, a failure while
\* loading the day, the week or the entries does not keep it from being true
C30_InitSettles ==
  [][lastOp'.op = "init" =>
       /\ ~isLoading'
       /\ isInitialized' <=> (lastOp'.error # "settings")
       /\ lastOp'.error = "settings" =>
            (~isInitialized' /\ notifications' = Append(notifications, "error"))
       /\ lastOp'.error \in {"day", "week", "entries"} =>
            (isInitialized' /\ notifications' = notifications)]_vars

\* init has settled with isInitialized true although loading the day failed:
\* the DayLog of today is stored and currentDay is still null
C30_Witness ==
  /\ lastOp.op = "init"
  /\ lastOp.error = "day"
  /\ isInitialized
  /\ ~isLoading
  /\ Today \in DOMAIN days
  /\ currentDay = Undefined
  /\ storeSettings # Undefined

====
